---- MODULE Spec2Model ----
(***************************************************************************)
(* Two-deck audio engine of the Flowstate DJ application.                  *)
(*                                                                         *)
(* The repository holds two playback engines, AudioEngine (decks A and B   *)
(* with a DeckAudioState each) and AudioManager (a map of AudioTrack       *)
(* objects, routed to deck A or B when played).  Both drive the Web Audio  *)
(* platform: an AudioContext with a hardware clock (currentTime), one-shot *)
(* AudioBufferSourceNodes, and the `ended` event a source dispatches, as a *)
(* task of its own, when it is stopped or when it reaches the end of its   *)
(* buffer.  The two singletons share no state; a behaviour exercises one   *)
(* of them (variable engine).                                              *)
(*                                                                         *)
(* Time is counted in whole seconds.  Fields the code only writes          *)
(* (DeckAudioState.pauseTime, AudioTrack.currentTime, AudioTrack.gainNode) *)
(* are left out.                                                           *)
(***************************************************************************)
EXTENDS Integers, FiniteSets, Sequences, TLC

\* ------------------------------------------------------------------ bounds
MaxClock   == 3   \* the hardware clock runs 0..MaxClock
MaxSources == 3   \* AudioBufferSourceNodes alive (rendering or with an event queued) at once
MaxAwait   == 1   \* play() calls suspended on audioContext.resume() at once

Decks     == {"A", "B"}
NoDeck    == "-"
SrcIds    == 1..MaxSources
NoSrc     == 0
TrackIds  == {1, 2}
NoTrackId == 0
Durations == {2, 3}   \* audioBuffer.duration of the files a session loads
SeekArgs  == {-1, 1, 4}   \* seek targets: before 0, inside, past the end
NaN == -1000000   \* the number NaN: not a level, equal to nothing in range
VolumeArgs       == {0, 500, 1200, NaN}                  \* fader levels asked for, in thousandths
EnginePositions  == {-250, 0, 250, 500, 750, 1000, NaN}  \* AudioEngine crossfader, 0..1
ManagerPositions == {-1000, -500, 0, 500, 1500, NaN}     \* AudioManager crossfader, -1..1

VARIABLES
    engine,      \* which singleton the behaviour exercises
    now,         \* audioContext.currentTime
    ctxState,    \* audioContext.state
    sources,     \* the AudioBufferSourceNodes still rendering, referenced or with an event queued
    deckState,   \* AudioEngine.deckAState / deckBState
    deckSource,  \* AudioEngine.deckASource / deckBSource
    engAwait,    \* AudioEngine.playDeck calls suspended at `await resume()`
    tracks,      \* AudioManager.tracks
    uiTrack,     \* HomeScreen deckA/deckB .currentTrack (a track id)
    mgrAwait,    \* AudioManager.playTrack calls suspended at `await resume()`
    mixer,       \* the gain nodes' targets and the levels last asked for
    last         \* the operation or callback that ran last, and what it returned

platformVars == <<now, ctxState, sources>>
engineVars   == <<deckState, deckSource, engAwait>>
managerVars  == <<tracks, uiTrack, mgrAwait>>
vars == <<engine, now, ctxState, sources, deckState, deckSource, engAwait,
          tracks, uiTrack, mgrAwait, mixer, last>>

\* ---------------------------------------------------------------- helpers
Min(a, b) == IF a < b THEN a ELSE b
Max(a, b) == IF a > b THEN a ELSE b
\* Math.max(lo, Math.min(hi, x)); Math.min and Math.max return NaN for NaN
Clamp(x, lo, hi) == IF x = NaN THEN NaN ELSE Max(lo, Min(hi, x))

\* ------------------------------------------------- Web Audio platform model
\* A slot that holds no node.
FreeSource == [status |-> "free", pending |-> FALSE, deck |-> NoDeck,
               track |-> NoTrackId, endAt |-> 0]

\* source.start(when, offset): the node renders buffer[offset..duration) from
\* the current clock on; an offset at or past the end renders nothing and the
\* node is finished at once.  `pending` is its queued `ended` event.
StartedSource(d, t, offset, dur) ==
    IF offset >= dur
    THEN [status |-> "ended", pending |-> TRUE, deck |-> d, track |-> t, endAt |-> 0]
    ELSE [status |-> "live", pending |-> FALSE, deck |-> d, track |-> t,
          endAt |-> now + (dur - offset)]

\* source.stop(): a rendering node is stopped and its `ended` event queued;
\* a node that already finished is left as it is.
StoppedSource(src) ==
    IF src.status = "live"
    THEN [src EXCEPT !.status = "stopped", !.pending = TRUE, !.endAt = 0]
    ELSE src

\* the nodes after source.stop() on node s (s = NoSrc: no node, no call)
StopIn(srcs, s) ==
    IF s = NoSrc THEN srcs ELSE [srcs EXCEPT ![s] = StoppedSource(srcs[s])]

\* The render thread at clock value t: every node that reached the end of its
\* buffer is finished and its `ended` event queued.
Rendered(srcs, t) ==
    [s \in SrcIds |->
        IF srcs[s].status = "live" /\ srcs[s].endAt <= t
        THEN [srcs[s] EXCEPT !.status = "ended", !.pending = TRUE, !.endAt = 0]
        ELSE srcs[s]]

\* Garbage collection: a finished node with no event queued that nothing
\* references (refs) is gone.
Collected(srcs, refs) ==
    [s \in SrcIds |->
        IF srcs[s].status \in {"stopped", "ended", "idle"} /\ ~srcs[s].pending
           /\ s \notin refs
        THEN FreeSource ELSE srcs[s]]

\* A node createBufferSource() returned and start() never started (a step
\* between the two threw).  source.stop() on such a node throws
\* InvalidStateError.
IdleSource(d, t) == [status |-> "idle", pending |-> FALSE, deck |-> d,
                     track |-> t, endAt |-> 0]

FreeIds == {s \in SrcIds : sources[s].status = "free"}
\* audioContext.createBufferSource(): the node the call returns
NewSrc == CHOOSE s \in FreeIds : \A s2 \in FreeIds : s <= s2

LiveOnDeck(d) == {s \in SrcIds : sources[s].status = "live" /\ sources[s].deck = d}
LiveOfTrack(t) == {s \in SrcIds : sources[s].status = "live" /\ sources[s].track = t}
PendingEvents == {s \in SrcIds : sources[s].pending}
\* how the node ended, for the record of the callback
EndKind(s) == IF sources[s].status = "ended" THEN "natural" ELSE "stopped"

\* ---------------------------------------------------- the `last` bookkeeping
Did(op, d, t, arg, ret, note) ==
    [op |-> op, deck |-> d, track |-> t, arg |-> arg, ret |-> ret, note |-> note]

\* ------------------------------------------------------------- AudioEngine
EmptyDeck == [audioTrack |-> 0, isPlaying |-> FALSE, position |-> 0, startTime |-> 0]

\* a position read that always takes the clock, playing or not
getCurrentPositionUnguarded(d) == now - deckState[d].startTime

\* AudioEngine.getCurrentPosition
getCurrentPosition(d) ==
    IF ~deckState[d].isPlaying THEN deckState[d].position
    ELSE now - deckState[d].startTime

\* AudioEngine.stopDeck: the deck record after the call
StoppedDeck(ds, src) ==
    IF ~ds.isPlaying \/ src = NoSrc
    THEN [ds EXCEPT !.position = 0, !.isPlaying = FALSE]
    ELSE [ds EXCEPT !.isPlaying = FALSE, !.position = 0, !.startTime = 0]

\* AudioEngine.stopDeck: the deck's source reference after the call
StoppedDeckSource(ds, src) ==
    IF ~ds.isPlaying \/ src = NoSrc THEN src ELSE NoSrc

\* AudioEngine.stopDeck: the nodes after the call
StoppedDeckNodes(srcs, ds, src) ==
    IF ~ds.isPlaying \/ src = NoSrc THEN srcs ELSE StopIn(srcs, src)

EngineRefs(dsrc) == {dsrc[d] : d \in Decks}

\* AudioEngine.loadTrackToDeck(audioTrack, deckId)
loadTrackToDeck(d, dur) ==
    /\ engine = "AudioEngine"
    /\ LET ds  == deckState[d]
           st  == IF ds.isPlaying THEN StoppedDeck(ds, deckSource[d]) ELSE ds
       IN /\ deckState' = [deckState EXCEPT ![d] =
                              [st EXCEPT !.audioTrack = dur, !.position = 0]]
          /\ deckSource' = [deckSource EXCEPT ![d] =
                              IF ds.isPlaying THEN StoppedDeckSource(ds, deckSource[d])
                              ELSE deckSource[d]]
          /\ sources' = IF ds.isPlaying
                        THEN StoppedDeckNodes(sources, ds, deckSource[d])
                        ELSE sources
    /\ last' = Did("load", d, NoTrackId, dur, TRUE, "")
    /\ UNCHANGED <<engine, mixer, now, ctxState, engAwait, managerVars>>

\* playDeck without its `!deckState.audioTrack?.audioBuffer` guard
playDeckBodyUnguarded(d) ==
    LET ds == deckState[d] IN
    IF ds.isPlaying
    THEN /\ last' = Did("play", d, NoTrackId, 0, TRUE, "already")
         /\ UNCHANGED <<sources, deckState, deckSource>>
    ELSE /\ FreeIds # {}
         /\ sources' = [sources EXCEPT ![NewSrc] =
                           StartedSource(d, NoTrackId, ds.position, ds.audioTrack)]
         /\ deckSource' = [deckSource EXCEPT ![d] = NewSrc]
         /\ deckState' = [deckState EXCEPT ![d] =
                             [ds EXCEPT !.isPlaying = TRUE,
                                        !.startTime = now - ds.position]]
         /\ last' = Did("play", d, NoTrackId, 0, TRUE, "started")

\* AudioEngine.playDeck from `const deckState = ...` on (after the await)
playDeckBody(d) ==
    LET ds == deckState[d] IN
    IF ds.audioTrack = 0
    THEN /\ last' = Did("play", d, NoTrackId, 0, FALSE, "NotLoaded")
         /\ UNCHANGED <<sources, deckState, deckSource>>
    ELSE IF ds.isPlaying
    THEN /\ last' = Did("play", d, NoTrackId, 0, TRUE, "already")
         /\ UNCHANGED <<sources, deckState, deckSource>>
    ELSE /\ FreeIds # {}
         /\ sources' = [sources EXCEPT ![NewSrc] =
                           StartedSource(d, NoTrackId, ds.position, ds.audioTrack)]
         /\ deckSource' = [deckSource EXCEPT ![d] = NewSrc]
         /\ deckState' = [deckState EXCEPT ![d] =
                             [ds EXCEPT !.isPlaying = TRUE,
                                        !.startTime = now - ds.position]]
         /\ last' = Did("play", d, NoTrackId, 0, TRUE, "started")

\* AudioEngine.playDeck(deckId), called with the context running
playDeck(d) ==
    /\ engine = "AudioEngine"
    /\ ctxState = "running"
    /\ playDeckBody(d)
    /\ UNCHANGED <<engine, mixer, now, ctxState, engAwait, managerVars>>

\* AudioEngine.playDeck(deckId), called with the context suspended: the call
\* stops at `await this.audioContext.resume()`
playDeckSuspend(d) ==
    /\ engine = "AudioEngine"
    /\ ctxState = "suspended"
    /\ engAwait[d] < MaxAwait
    /\ engAwait' = [engAwait EXCEPT ![d] = @ + 1]
    /\ last' = Did("playCall", d, NoTrackId, 0, TRUE, "")
    /\ UNCHANGED <<engine, mixer, platformVars, deckState, deckSource, managerVars>>

\* AudioEngine.playDeck(deckId) continuing after the await
playDeckResume(d) ==
    /\ engine = "AudioEngine"
    /\ ctxState = "running"
    /\ engAwait[d] > 0
    /\ engAwait' = [engAwait EXCEPT ![d] = @ - 1]
    /\ playDeckBody(d)
    /\ UNCHANGED <<engine, mixer, now, ctxState, managerVars>>

\* a pause that acts as a play/pause toggle: on a deck that is not playing it
\* starts playback
pauseDeckToggling(d) ==
    /\ engine = "AudioEngine"
    /\ LET ds == deckState[d] IN
       IF ~ds.isPlaying \/ deckSource[d] = NoSrc
       THEN playDeckBody(d)
       ELSE /\ deckState' = [deckState EXCEPT ![d] =
                                [ds EXCEPT !.position = now - ds.startTime,
                                           !.isPlaying = FALSE]]
            /\ sources' = StopIn(sources, deckSource[d])
            /\ deckSource' = [deckSource EXCEPT ![d] = NoSrc]
            /\ last' = Did("pause", d, NoTrackId, 0, TRUE, "paused")
    /\ UNCHANGED <<engine, mixer, now, ctxState, engAwait, managerVars>>

\* AudioEngine.pauseDeck(deckId)
pauseDeck(d) ==
    /\ engine = "AudioEngine"
    /\ LET ds == deckState[d] IN
       IF ~ds.isPlaying \/ deckSource[d] = NoSrc
       THEN /\ last' = Did("pause", d, NoTrackId, 0, TRUE, "noop")
            /\ UNCHANGED <<sources, deckState, deckSource>>
       ELSE /\ deckState' = [deckState EXCEPT ![d] =
                                [ds EXCEPT !.position = now - ds.startTime,
                                           !.isPlaying = FALSE]]
            /\ sources' = StopIn(sources, deckSource[d])
            /\ deckSource' = [deckSource EXCEPT ![d] = NoSrc]
            /\ last' = Did("pause", d, NoTrackId, 0, TRUE, "paused")
    /\ UNCHANGED <<engine, mixer, now, ctxState, engAwait, managerVars>>

\* AudioEngine.stopDeck(deckId)
stopDeck(d) ==
    /\ engine = "AudioEngine"
    /\ deckState' = [deckState EXCEPT ![d] = StoppedDeck(deckState[d], deckSource[d])]
    /\ deckSource' = [deckSource EXCEPT ![d] =
                         StoppedDeckSource(deckState[d], deckSource[d])]
    /\ sources' = StoppedDeckNodes(sources, deckState[d], deckSource[d])
    /\ last' = Did("stop", d, NoTrackId, 0, TRUE,
                   IF deckState[d].isPlaying THEN "stopped" ELSE "noop")
    /\ UNCHANGED <<engine, mixer, now, ctxState, engAwait, managerVars>>

\* an ended handler that only logs and leaves the deck as it is
engineOnEndedLogging(s) ==
    /\ engine = "AudioEngine"
    /\ sources[s].pending
    /\ sources' = Collected([sources EXCEPT ![s].pending = FALSE],
                            EngineRefs(deckSource))
    /\ last' = Did("ended", sources[s].deck, NoTrackId, 0, FALSE, EndKind(s))
    /\ UNCHANGED <<engine, mixer, now, ctxState, engineVars, managerVars>>

\* The source.onended handler playDeck installs, run for node s: the closure
\* holds the deck's state record and the deck id, not the node.
engineOnEnded(s) ==
    /\ engine = "AudioEngine"
    /\ sources[s].pending
    /\ LET d    == sources[s].deck
           ds   == deckState[d]
           evt  == [sources EXCEPT ![s].pending = FALSE]
           dsrc == IF ds.isPlaying
                   THEN [deckSource EXCEPT ![d] = StoppedDeckSource(ds, deckSource[d])]
                   ELSE deckSource
       IN /\ deckState' = IF ds.isPlaying
                          THEN [deckState EXCEPT ![d] = StoppedDeck(ds, deckSource[d])]
                          ELSE deckState
          /\ deckSource' = dsrc
          /\ sources' = Collected(IF ds.isPlaying
                                  THEN StoppedDeckNodes(evt, ds, deckSource[d])
                                  ELSE evt,
                                  EngineRefs(dsrc))
          \* ret: the handler ran stopDeck and logged "finished playing"
          /\ last' = Did("ended", d, NoTrackId, 0, ds.isPlaying, EndKind(s))
    /\ UNCHANGED <<engine, mixer, now, ctxState, engAwait, managerVars>>

\* AudioEngine.getDeckState(deckId): the poll writes the position back
getDeckState(d) ==
    /\ engine = "AudioEngine"
    /\ deckState[d].isPlaying
    /\ deckState' = [deckState EXCEPT ![d].position = now - deckState[d].startTime]
    /\ last' = Did("poll", d, NoTrackId, 0, TRUE, "")
    /\ UNCHANGED <<engine, mixer, platformVars, deckSource, engAwait, managerVars>>

\* ------------------------------------------------------------ AudioManager
NoTrack == [loaded |-> FALSE, isPlaying |-> FALSE, startTime |-> 0, pausedAt |-> 0,
            duration |-> 0, source |-> NoSrc]

\* AudioManager.getCurrentTime
getCurrentTime(t) ==
    IF ~tracks[t].loaded THEN 0
    ELSE IF tracks[t].isPlaying THEN now - tracks[t].startTime
    ELSE tracks[t].pausedAt

ManagerRefs(trs) == {trs[t].source : t \in TrackIds}

\* AudioManager.loadTrack(file, trackId); callers pass a fresh id
\* (`uploaded_${Date.now()}`)
loadTrack(t, dur) ==
    /\ engine = "AudioManager"
    /\ ~tracks[t].loaded
    /\ tracks' = [tracks EXCEPT ![t] =
                     [loaded |-> TRUE, isPlaying |-> FALSE, startTime |-> 0,
                      pausedAt |-> 0, duration |-> dur, source |-> NoSrc]]
    /\ last' = Did("load", NoDeck, t, dur, TRUE, "")
    /\ UNCHANGED <<engine, mixer, platformVars, engineVars, uiTrack, mgrAwait>>

\* HomeScreen.handleTrackSelect(track, deckId)
handleTrackSelect(t, d) ==
    /\ engine = "AudioManager"
    /\ uiTrack[d] # t
    /\ uiTrack' = [uiTrack EXCEPT ![d] = t]
    /\ last' = Did("select", d, t, 0, TRUE, "")
    /\ UNCHANGED <<engine, mixer, platformVars, engineVars, tracks, mgrAwait>>

\* AudioManager.stopTrack: the track record after the call
StoppedTrack(tr) ==
    [tr EXCEPT !.isPlaying = FALSE, !.pausedAt = 0, !.startTime = 0]

\* AudioManager.playTrack from `// Stop current source if playing` on
playTrackBody(trs, srcs, t, d) ==
    LET tr     == trs[t]
        offset == tr.pausedAt
    IN /\ FreeIds # {}
       /\ tracks' = [trs EXCEPT ![t] =
                        [tr EXCEPT !.source = NewSrc, !.startTime = now - offset,
                                   !.isPlaying = TRUE, !.pausedAt = 0]]
       /\ sources' = Collected(
                        [StopIn(srcs, tr.source) EXCEPT ![NewSrc] =
                            StartedSource(d, t, offset, tr.duration)],
                        ManagerRefs(tracks'))

\* AudioManager.playTrack(trackId, deckId) on an unknown track, or with the
\* context running
playTrack(t, d) ==
    /\ engine = "AudioManager"
    /\ uiTrack[d] = t
    /\ IF ~tracks[t].loaded
       THEN /\ last' = Did("play", d, t, 0, FALSE, "NotLoaded")
            /\ UNCHANGED <<tracks, sources>>
       ELSE /\ ctxState = "running"
            /\ playTrackBody(tracks, sources, t, d)
            /\ last' = Did("play", d, t, 0, TRUE,
                           IF tracks[t].isPlaying THEN "already" ELSE "started")
    /\ UNCHANGED <<engine, mixer, now, ctxState, engineVars, uiTrack, mgrAwait>>

\* AudioManager.playTrack(trackId, deckId) with the context suspended: the call
\* stops at `await this.audioContext.resume()`
playTrackSuspend(t, d) ==
    /\ engine = "AudioManager"
    /\ uiTrack[d] = t
    /\ tracks[t].loaded
    /\ ctxState = "suspended"
    /\ <<t, d>> \notin mgrAwait
    /\ Cardinality(mgrAwait) < MaxAwait
    /\ mgrAwait' = mgrAwait \cup {<<t, d>>}
    /\ last' = Did("playCall", d, t, 0, TRUE, "")
    /\ UNCHANGED <<engine, mixer, platformVars, engineVars, tracks, uiTrack>>

\* AudioManager.playTrack(trackId, deckId) continuing after the await
playTrackResume(t, d) ==
    /\ engine = "AudioManager"
    /\ <<t, d>> \in mgrAwait
    /\ ctxState = "running"
    /\ mgrAwait' = mgrAwait \ {<<t, d>>}
    /\ playTrackBody(tracks, sources, t, d)
    /\ last' = Did("play", d, t, 0, TRUE,
                   IF tracks[t].isPlaying THEN "already" ELSE "started")
    /\ UNCHANGED <<engine, mixer, now, ctxState, engineVars, uiTrack>>

\* AudioManager.pauseTrack(trackId)
pauseTrack(t) ==
    /\ engine = "AudioManager"
    /\ \E d \in Decks : uiTrack[d] = t
    /\ LET tr == tracks[t] IN
       IF ~tr.loaded \/ ~tr.isPlaying
       THEN /\ last' = Did("pause", NoDeck, t, 0, FALSE, "noop")
            /\ UNCHANGED <<tracks, sources>>
       ELSE /\ tracks' = [tracks EXCEPT ![t] =
                             [tr EXCEPT !.pausedAt = now - tr.startTime,
                                        !.isPlaying = FALSE]]
            /\ sources' = StopIn(sources, tr.source)
            /\ last' = Did("pause", NoDeck, t, 0, TRUE, "paused")
    /\ UNCHANGED <<engine, mixer, now, ctxState, engineVars, uiTrack, mgrAwait>>

\* AudioManager.stopTrack(trackId)
stopTrack(t) ==
    /\ engine = "AudioManager"
    /\ \E d \in Decks : uiTrack[d] = t
    /\ LET tr == tracks[t] IN
       IF ~tr.loaded
       THEN /\ last' = Did("stop", NoDeck, t, 0, FALSE, "noop")
            /\ UNCHANGED <<tracks, sources>>
       ELSE /\ tracks' = [tracks EXCEPT ![t] = StoppedTrack(tr)]
            /\ sources' = StopIn(sources, tr.source)
            /\ last' = Did("stop", NoDeck, t, 0, TRUE,
                           IF tr.isPlaying THEN "stopped" ELSE "noop")
    /\ UNCHANGED <<engine, mixer, now, ctxState, engineVars, uiTrack, mgrAwait>>

\* a seek that stores the requested position as it came
SoughtPositionUnclamped(position, duration) == position

\* AudioManager.seekTo: Math.max(0, Math.min(track.duration, position))
SoughtPosition(position, duration) == Clamp(position, 0, duration)

\* AudioManager.seekTo(trackId, position, deckId)
seekTo(t, position, d) ==
    /\ engine = "AudioManager"
    /\ uiTrack[d] = t
    /\ LET tr         == tracks[t]
           wasPlaying == tr.isPlaying
           stopped    == StopIn(sources, tr.source)
           sought     == [tracks EXCEPT ![t] =
                             [StoppedTrack(tr) EXCEPT
                                 !.pausedAt = SoughtPosition(position, tr.duration)]]
       IN IF ~tr.loaded
          THEN /\ last' = Did("seek", d, t, position, FALSE, "NotLoaded")
               /\ UNCHANGED <<tracks, sources, mgrAwait>>
          ELSE IF ~wasPlaying
          THEN /\ tracks' = sought
               /\ sources' = stopped
               /\ last' = Did("seek", d, t, position, TRUE, "paused")
               /\ UNCHANGED mgrAwait
          ELSE IF ctxState = "running"
          \* this.playTrack(trackId, deckId) runs to its end within the call
          THEN /\ playTrackBody(sought, stopped, t, d)
               /\ last' = Did("seek", d, t, position, TRUE, "playing")
               /\ UNCHANGED mgrAwait
          \* this.playTrack(trackId, deckId) stops at its await
          ELSE /\ tracks' = sought
               /\ sources' = stopped
               /\ mgrAwait' = mgrAwait \cup {<<t, d>>}
               /\ last' = Did("seek", d, t, position, TRUE, "playing")
    /\ UNCHANGED <<engine, mixer, now, ctxState, engineVars, uiTrack>>

\* an ended handler without the isPlaying test: it resets the track and calls
\* onTrackEnd on every delivery
managerOnEndedUnguarded(s) ==
    /\ engine = "AudioManager"
    /\ sources[s].pending
    /\ LET t   == sources[s].track
           tr  == tracks[t]
           evt == [sources EXCEPT ![s].pending = FALSE]
       IN /\ tracks' = [tracks EXCEPT ![t] =
                           [tr EXCEPT !.isPlaying = FALSE, !.pausedAt = 0]]
          /\ sources' = Collected(evt, ManagerRefs(tracks))
          /\ last' = Did("ended", sources[s].deck, t, 0, TRUE, EndKind(s))
    /\ UNCHANGED <<engine, mixer, now, ctxState, engineVars, uiTrack, mgrAwait>>

\* The source.onended handler playTrack installs, run for node s: the closure
\* holds the track object and the deck id, not the node.
managerOnEnded(s) ==
    /\ engine = "AudioManager"
    /\ sources[s].pending
    /\ LET t   == sources[s].track
           tr  == tracks[t]
           evt == [sources EXCEPT ![s].pending = FALSE]
       IN /\ tracks' = IF tr.isPlaying
                       THEN [tracks EXCEPT ![t] =
                                [tr EXCEPT !.isPlaying = FALSE, !.pausedAt = 0]]
                       ELSE tracks
          /\ sources' = Collected(evt, ManagerRefs(tracks))
          \* ret: the handler called onTrackEnd(deckId)
          /\ last' = Did("ended", sources[s].deck, t, 0, tr.isPlaying, EndKind(s))
    /\ UNCHANGED <<engine, mixer, now, ctxState, engineVars, uiTrack, mgrAwait>>

\* has the poll reached the end of track t
PollEnds(t) == tracks[t].isPlaying /\ now - tracks[t].startTime >= tracks[t].duration

\* AudioManager.startPositionTracking / updatePositions: one animation frame
updatePositions ==
    /\ engine = "AudioManager"
    /\ \E t \in TrackIds : tracks[t].isPlaying
    /\ tracks' = [t \in TrackIds |->
                     IF PollEnds(t) THEN StoppedTrack(tracks[t]) ELSE tracks[t]]
    /\ sources' = [s \in SrcIds |->
                     IF \E t \in TrackIds : PollEnds(t) /\ tracks[t].source = s
                     THEN StoppedSource(sources[s]) ELSE sources[s]]
    /\ last' = Did("poll", NoDeck, NoTrackId, 0,
                   \E t \in TrackIds : PollEnds(t), "")
    /\ UNCHANGED <<engine, mixer, now, ctxState, engineVars, uiTrack, mgrAwait>>

\* ---------------------------------------------------------------- platform
\* The hardware clock advances one second while the context runs.
Tick ==
    /\ ctxState = "running"
    /\ now < MaxClock
    /\ now' = now + 1
    /\ sources' = Rendered(sources, now + 1)
    /\ last' = Did("tick", NoDeck, NoTrackId, 0, TRUE, "")
    /\ UNCHANGED <<engine, mixer, ctxState, engineVars, managerVars>>

\* audioContext.resume() is granted (a user gesture arrived)
ContextResumed ==
    /\ ctxState = "suspended"
    /\ ctxState' = "running"
    /\ last' = Did("resumed", NoDeck, NoTrackId, 0, TRUE, "")
    /\ UNCHANGED <<engine, mixer, now, sources, engineVars, managerVars>>

\* ------------------------------------------------------------------- mixer
\* Gains, volumes and crossfader positions are in thousandths (0.75 is 750).
\* setTargetAtTime moves a gain towards its target; the record holds targets.
\* Its target parameter is a float: a NaN argument makes it throw TypeError
\* and the rest of the calling method is not run.

\* cos(position * PI / 2) on the quarter grid, rounded to thousandths
CosHalfPi(p) ==
    CASE p = 0    -> 1000
      [] p = 250  -> 924
      [] p = 500  -> 707
      [] p = 750  -> 383
      [] p = 1000 -> 0
      [] p = NaN  -> NaN

\* sin(position * PI / 2) on the same grid
SinHalfPi(p) == IF p = NaN THEN NaN ELSE CosHalfPi(1000 - p)

\* AudioEngine.updateCrossfader: the gain of deck d's crossfader node
EngineCrossfaderGain(d, p) == IF d = "A" THEN CosHalfPi(p) ELSE SinHalfPi(p)

\* AudioManager.setCrossfader: gainA and gainB for a clamped position
ManagerCrossfaderGain(d, p) ==
    IF d = "A" THEN (IF p <= 0 THEN 1000 ELSE 1000 - p)
               ELSE (IF p >= 0 THEN 1000 ELSE 1000 + p)

\* AudioEngine after its constructor: setupAudioGraph
EngineMixer ==
    [deckGain   |-> [d \in Decks |-> 750],
     xfGain     |-> [d \in Decks |-> EngineCrossfaderGain(d, 500)],
     masterGain |-> 800,
     volume     |-> [d \in Decks |-> 750],
     crossfader |-> 500,
     master     |-> 800]

\* AudioManager after initialize(); volume, crossfader and master are the
\* levels the UI holds (HomeScreen deck.volume, RealCrossfader's state).
\* deckAGain and deckBGain both feed the one crossfaderGain node, whose gain
\* stays at the default 1.
ManagerMixer ==
    [deckGain   |-> [d \in Decks |-> 750],
     xfGain     |-> [d \in Decks |-> 1000],
     masterGain |-> 800,
     volume     |-> [d \in Decks |-> 750],
     crossfader |-> 0,
     master     |-> 800]

\* AudioEngine.setDeckVolume(deckId, volume)
setDeckVolume(d, volume) ==
    /\ engine = "AudioEngine"
    /\ LET clampedVolume == Clamp(volume, 0, 1000) IN
       IF clampedVolume = NaN
       THEN /\ UNCHANGED mixer
            /\ last' = Did("setDeckVolume", d, NoTrackId, volume, FALSE, "threw")
       ELSE /\ mixer' = [mixer EXCEPT !.deckGain[d] = clampedVolume,
                                      !.volume[d] = clampedVolume]
            /\ last' = Did("setDeckVolume", d, NoTrackId, volume, TRUE, "")
    /\ UNCHANGED <<engine, platformVars, engineVars, managerVars>>

\* AudioEngine.setMasterVolume(volume)
setMasterVolume(volume) ==
    /\ engine = "AudioEngine"
    /\ LET clampedVolume == Clamp(volume, 0, 1000) IN
       IF clampedVolume = NaN
       THEN /\ UNCHANGED mixer
            /\ last' = Did("setMasterVolume", NoDeck, NoTrackId, volume, FALSE, "threw")
       ELSE /\ mixer' = [mixer EXCEPT !.masterGain = clampedVolume,
                                      !.master = clampedVolume]
            /\ last' = Did("setMasterVolume", NoDeck, NoTrackId, volume, TRUE, "")
    /\ UNCHANGED <<engine, platformVars, engineVars, managerVars>>

\* AudioEngine.setCrossfader(position), with updateCrossfader
setCrossfader(position) ==
    /\ engine = "AudioEngine"
    /\ LET crossfaderPosition == Clamp(position, 0, 1000) IN
       \* this.crossfaderPosition is assigned before updateCrossfader runs
       IF crossfaderPosition = NaN
       THEN /\ mixer' = [mixer EXCEPT !.crossfader = crossfaderPosition]
            /\ last' = Did("setCrossfader", NoDeck, NoTrackId, position, FALSE, "threw")
       ELSE /\ mixer' = [mixer EXCEPT
                            !.crossfader = crossfaderPosition,
                            !.xfGain = [d \in Decks |->
                                           EngineCrossfaderGain(d, crossfaderPosition)]]
            /\ last' = Did("setCrossfader", NoDeck, NoTrackId, position, TRUE, "")
    /\ UNCHANGED <<engine, platformVars, engineVars, managerVars>>

\* DeckController.handleRealVolumeChange: AudioManager.setDeckVolume(deckId,
\* volume / 100), then the UI keeps the level
managerSetDeckVolume(d, volume) ==
    /\ engine = "AudioManager"
    /\ IF Clamp(volume, 0, 1000) = NaN
       THEN /\ UNCHANGED mixer
            /\ last' = Did("setDeckVolume", d, NoTrackId, volume, FALSE, "threw")
       ELSE /\ mixer' = [mixer EXCEPT !.deckGain[d] = Clamp(volume, 0, 1000),
                                      !.volume[d] = Clamp(volume, 0, 1000)]
            /\ last' = Did("setDeckVolume", d, NoTrackId, volume, TRUE, "")
    /\ UNCHANGED <<engine, platformVars, engineVars, managerVars>>

\* RealCrossfader's master effect: AudioManager.setMasterVolume(volume)
managerSetMasterVolume(volume) ==
    /\ engine = "AudioManager"
    /\ IF Clamp(volume, 0, 1000) = NaN
       THEN /\ UNCHANGED mixer
            /\ last' = Did("setMasterVolume", NoDeck, NoTrackId, volume, FALSE, "threw")
       ELSE /\ mixer' = [mixer EXCEPT !.masterGain = Clamp(volume, 0, 1000),
                                      !.master = Clamp(volume, 0, 1000)]
            /\ last' = Did("setMasterVolume", NoDeck, NoTrackId, volume, TRUE, "")
    /\ UNCHANGED <<engine, platformVars, engineVars, managerVars>>

\* RealCrossfader's position effect: AudioManager.setCrossfader(position)
managerSetCrossfader(position) ==
    /\ engine = "AudioManager"
    /\ LET clampedPosition == Clamp(position, -1000, 1000) IN
       \* 1 - NaN is NaN: the first setTargetAtTime throws, no gain is written
       IF clampedPosition = NaN
       THEN /\ UNCHANGED mixer
            /\ last' = Did("setCrossfader", NoDeck, NoTrackId, position, FALSE, "threw")
       ELSE /\ mixer' = [mixer EXCEPT
                            !.crossfader = clampedPosition,
                            !.deckGain = [d \in Decks |->
                                             ManagerCrossfaderGain(d, clampedPosition)]]
            /\ last' = Did("setCrossfader", NoDeck, NoTrackId, position, TRUE, "")
    /\ UNCHANGED <<engine, platformVars, engineVars, managerVars>>

\* ------------------------------------------------------------ specification
Init ==
    /\ engine \in {"AudioEngine", "AudioManager"}
    /\ now = 0
    /\ ctxState \in {"suspended", "running"}
    /\ sources = [s \in SrcIds |-> FreeSource]
    /\ deckState = [d \in Decks |-> EmptyDeck]
    /\ deckSource = [d \in Decks |-> NoSrc]
    /\ engAwait = [d \in Decks |-> 0]
    /\ tracks = [t \in TrackIds |-> NoTrack]
    /\ uiTrack = [d \in Decks |-> NoTrackId]
    /\ mgrAwait = {}
    /\ mixer = IF engine = "AudioEngine" THEN EngineMixer ELSE ManagerMixer
    /\ last = Did("init", NoDeck, NoTrackId, 0, TRUE, "")

\* The calls a session makes on AudioEngine, on the decks D, with buffers of
\* the durations Durs, and the callbacks the platform delivers to it.
EngineNext(D, Durs) ==
    \/ \E d \in D, dur \in Durs : loadTrackToDeck(d, dur)
    \/ \E d \in D : playDeck(d)
    \/ \E d \in D : playDeckSuspend(d)
    \/ \E d \in D : playDeckResume(d)
    \/ \E d \in D : pauseDeck(d)
    \/ \E d \in D : stopDeck(d)
    \/ \E d \in D : getDeckState(d)
    \/ \E s \in SrcIds : engineOnEnded(s)

\* The calls a session makes on AudioManager, with the tracks T on the decks
\* D, and the callbacks the platform delivers to it.
ManagerNext(T, D, Durs, Seeks) ==
    \/ \E t \in T, dur \in Durs : loadTrack(t, dur)
    \/ \E t \in T, d \in D : handleTrackSelect(t, d)
    \/ \E t \in T, d \in D : playTrack(t, d)
    \/ \E t \in T, d \in D : playTrackSuspend(t, d)
    \/ \E t \in T, d \in D : playTrackResume(t, d)
    \/ \E t \in T : pauseTrack(t)
    \/ \E t \in T : stopTrack(t)
    \/ \E t \in T, d \in D, p \in Seeks : seekTo(t, p, d)
    \/ \E s \in SrcIds : managerOnEnded(s)
    \/ updatePositions

\* A session on one deck: deck A, and in AudioManager one uploaded track.
Next ==
    \/ EngineNext({"A"}, Durations)
    \/ ManagerNext({1}, {"A"}, Durations, SeekArgs)
    \/ Tick
    \/ ContextResumed

Spec == Init /\ [][Next]_vars

\* A session on both decks, with two uploaded tracks: loads, selections and
\* transport calls that all fall within one second of the hardware clock,
\* and the callbacks the platform delivers.
NextTwoDecks ==
    \/ \E d \in Decks : loadTrackToDeck(d, 2)
    \/ \E d \in Decks : playDeck(d)
    \/ \E d \in Decks : pauseDeck(d)
    \/ \E d \in Decks : stopDeck(d)
    \/ \E s \in SrcIds : engineOnEnded(s)
    \/ \E t \in TrackIds : loadTrack(t, 2)
    \/ \E t \in TrackIds, d \in Decks : handleTrackSelect(t, d)
    \/ \E t \in TrackIds, d \in Decks : playTrack(t, d)
    \/ \E t \in TrackIds : pauseTrack(t)
    \/ \E t \in TrackIds : stopTrack(t)
    \/ \E s \in SrcIds : managerOnEnded(s)
    \/ ContextResumed

SpecTwoDecks == Init /\ [][NextTwoDecks]_vars

\* The play button of a deck that is not playing (DeckController shows the
\* play glyph and calls handleRealPlay).
pressPlayDeck(d) == ~deckState[d].isPlaying /\ playDeck(d)
pressPlayTrack(t, d) == ~tracks[t].isPlaying /\ playTrack(t, d)

\* The first upload to a deck: loadTrackToDeck on a deck that holds no track.
loadEmptyDeck(d, dur) == deckState[d].audioTrack = 0 /\ loadTrackToDeck(d, dur)

\* A session that loads deck A once and then only presses play and pause.
NextPauseResume ==
    \/ \E dur \in Durations : loadEmptyDeck("A", dur)
    \/ pressPlayDeck("A")
    \/ pauseDeck("A")
    \/ getDeckState("A")
    \/ \E s \in SrcIds : engineOnEnded(s)
    \/ \E dur \in Durations : loadTrack(1, dur)
    \/ handleTrackSelect(1, "A")
    \/ pressPlayTrack(1, "A")
    \/ pauseTrack(1)
    \/ \E s \in SrcIds : managerOnEnded(s)
    \/ updatePositions
    \/ Tick
    \/ ContextResumed

SpecPauseResume == Init /\ [][NextPauseResume]_vars

\* A session that loads deck A once, presses play and lets the track run out.
NextPlayThrough ==
    \/ \E dur \in Durations : loadEmptyDeck("A", dur)
    \/ pressPlayDeck("A")
    \/ getDeckState("A")
    \/ \E s \in SrcIds : engineOnEnded(s)
    \/ \E dur \in Durations : loadTrack(1, dur)
    \/ handleTrackSelect(1, "A")
    \/ pressPlayTrack(1, "A")
    \/ \E s \in SrcIds : managerOnEnded(s)
    \/ updatePositions
    \/ Tick
    \/ ContextResumed

SpecPlayThrough == Init /\ [][NextPlayThrough]_vars

\* A session at the mixer: faders and crossfader only.
NextMixer ==
    \/ \E d \in Decks, v \in VolumeArgs : setDeckVolume(d, v)
    \/ \E v \in VolumeArgs : setMasterVolume(v)
    \/ \E p \in EnginePositions : setCrossfader(p)
    \/ \E d \in Decks, v \in VolumeArgs : managerSetDeckVolume(d, v)
    \/ \E v \in VolumeArgs : managerSetMasterVolume(v)
    \/ \E p \in ManagerPositions : managerSetCrossfader(p)

SpecMixer == Init /\ [][NextMixer]_vars

\* ------------------------------------------- failures inside play()
\* AudioEngine.playDeck when a step of its try block throws.  step "create":
\* createBufferSource or connect threw, before the source is stored;
\* step "start": source.start threw, after deckASource/deckBSource was set.
playDeckFails(d, step) ==
    /\ engine = "AudioEngine"
    /\ ctxState = "running"
    /\ deckState[d].audioTrack # 0
    /\ ~deckState[d].isPlaying
    /\ IF step = "create"
       THEN UNCHANGED <<sources, deckSource>>
       ELSE /\ FreeIds # {}
            /\ deckSource' = [deckSource EXCEPT ![d] = NewSrc]
            /\ sources' = Collected([sources EXCEPT ![NewSrc] = IdleSource(d, NoTrackId)],
                                    EngineRefs(deckSource'))
    /\ last' = Did("play", d, NoTrackId, 0, FALSE, step)
    /\ UNCHANGED <<engine, mixer, now, ctxState, deckState, engAwait, managerVars>>

\* the node stored on track t was never started
StoredSourceIdle(t) ==
    tracks[t].source # NoSrc /\ sources[tracks[t].source].status = "idle"

\* AudioManager.playTrack when a step of its try block throws, after the
\* stored source was stopped.  step "create": createBufferSource threw;
\* step "start": connect or start threw, after track.source was replaced.
playTrackFails(t, d, step) ==
    /\ engine = "AudioManager"
    /\ uiTrack[d] = t
    /\ tracks[t].loaded
    /\ ctxState = "running"
    /\ ~StoredSourceIdle(t)
    /\ IF step = "create"
       THEN /\ sources' = StopIn(sources, tracks[t].source)
            /\ UNCHANGED tracks
       ELSE /\ FreeIds # {}
            /\ tracks' = [tracks EXCEPT ![t].source = NewSrc]
            /\ sources' = Collected(
                             [StopIn(sources, tracks[t].source) EXCEPT ![NewSrc] =
                                 IdleSource(d, t)],
                             ManagerRefs(tracks'))
    /\ last' = Did("play", d, t, 0, FALSE, step)
    /\ UNCHANGED <<engine, mixer, now, ctxState, engineVars, uiTrack, mgrAwait>>

\* playTrack, pauseTrack or stopTrack on a track whose stored node was never
\* started: track.source.stop() throws, the catch block returns false
trackCallThrows(t, op) ==
    /\ engine = "AudioManager"
    /\ \E d \in Decks : uiTrack[d] = t
    /\ StoredSourceIdle(t)
    /\ op = "pause" => tracks[t].isPlaying
    /\ op = "play" => ctxState = "running"
    /\ last' = Did(op, NoDeck, t, 0, FALSE, "threw")
    /\ UNCHANGED <<engine, mixer, platformVars, engineVars, managerVars>>

\* the three calls when track.source.stop() does not throw
playTrackNoThrow(t, d) == ~StoredSourceIdle(t) /\ playTrack(t, d)
pauseTrackNoThrow(t) == ~StoredSourceIdle(t) /\ pauseTrack(t)
stopTrackNoThrow(t) == ~StoredSourceIdle(t) /\ stopTrack(t)

\* A session in which steps of play() can throw.
NextPlayFailure ==
    \/ \E dur \in Durations : loadTrackToDeck("A", dur)
    \/ playDeck("A")
    \/ pauseDeck("A")
    \/ stopDeck("A")
    \/ \E s \in SrcIds : engineOnEnded(s)
    \/ \E step \in {"create", "start"} : playDeckFails("A", step)
    \/ \E dur \in Durations : loadTrack(1, dur)
    \/ handleTrackSelect(1, "A")
    \/ playTrackNoThrow(1, "A")
    \/ pauseTrackNoThrow(1)
    \/ stopTrackNoThrow(1)
    \/ \E op \in {"play", "pause", "stop"} : trackCallThrows(1, op)
    \/ \E s \in SrcIds : managerOnEnded(s)
    \/ \E step \in {"create", "start"} : playTrackFails(1, "A", step)
    \/ Tick
    \/ ContextResumed

SpecPlayFailure == Init /\ [][NextPlayFailure]_vars

\* ------------------------------------------ the audio output unavailable
\* ctxState "none": this.audioContext is null (the engine was constructed
\* where no AudioContext could be made, or initializeAudioContext has not run).

\* AudioEngine.playDeck with no context: `if (!this.audioContext || ...) return false`
playDeckNoContext(d) ==
    /\ engine = "AudioEngine"
    /\ ctxState = "none"
    /\ last' = Did("play", d, NoTrackId, 0, FALSE, "DeviceUnavailable")
    /\ UNCHANGED <<engine, mixer, platformVars, engineVars, managerVars>>

\* AudioEngine.playDeck when the awaited audioContext.resume() rejects: the
\* await is outside the try block, so the rejection leaves playDeck as an
\* exception
playDeckRejected(d) ==
    /\ engine = "AudioEngine"
    /\ ctxState = "suspended"
    /\ engAwait[d] > 0
    /\ engAwait' = [engAwait EXCEPT ![d] = @ - 1]
    /\ last' = Did("play", d, NoTrackId, 0, FALSE, "threw")
    /\ UNCHANGED <<engine, mixer, platformVars, deckState, deckSource, managerVars>>

\* AudioManager.playTrack with no context: `if (!this.audioContext) return false`
playTrackNoContext(t, d) ==
    /\ engine = "AudioManager"
    /\ ctxState = "none"
    /\ last' = Did("play", d, t, 0, FALSE, "DeviceUnavailable")
    /\ UNCHANGED <<engine, mixer, platformVars, engineVars, managerVars>>

\* AudioManager.playTrack when the awaited audioContext.resume() rejects: the
\* await is inside the try block, the catch block returns false
playTrackRejected(t, d) ==
    /\ engine = "AudioManager"
    /\ ctxState = "suspended"
    /\ <<t, d>> \in mgrAwait
    /\ mgrAwait' = mgrAwait \ {<<t, d>>}
    /\ last' = Did("play", d, t, 0, FALSE, "DeviceUnavailable")
    /\ UNCHANGED <<engine, mixer, platformVars, engineVars, tracks, uiTrack>>

\* AudioManager.initializeAudioContext(): the context is created and resume()
\* is awaited; the context is running afterwards, or still suspended when the
\* browser withholds the resume
initializeAudioContext ==
    /\ engine = "AudioManager"
    /\ ctxState = "none"
    /\ ctxState' \in {"suspended", "running"}
    /\ last' = Did("initialize", NoDeck, NoTrackId, 0, TRUE, "")
    /\ UNCHANGED <<engine, mixer, now, sources, engineVars, managerVars>>

\* decoding needs the context: loadAudioFile throws and loadTrack returns
\* false without one, so a track is loaded only with a context
loadTrackToDeckWithContext(d, dur) == ctxState # "none" /\ loadTrackToDeck(d, dur)
loadTrackWithContext(t, dur) == ctxState # "none" /\ loadTrack(t, dur)
playTrackWithContext(t, d) == ctxState # "none" /\ playTrack(t, d)

\* the engines before and after the audio output is there
InitDevice ==
    /\ engine \in {"AudioEngine", "AudioManager"}
    /\ now = 0
    /\ ctxState \in {"none", "suspended", "running"}
    /\ sources = [s \in SrcIds |-> FreeSource]
    /\ deckState = [d \in Decks |-> EmptyDeck]
    /\ deckSource = [d \in Decks |-> NoSrc]
    /\ engAwait = [d \in Decks |-> 0]
    /\ tracks = [t \in TrackIds |-> NoTrack]
    /\ uiTrack = [d \in Decks |-> NoTrackId]
    /\ mgrAwait = {}
    /\ mixer = IF engine = "AudioEngine" THEN EngineMixer ELSE ManagerMixer
    /\ last = Did("init", NoDeck, NoTrackId, 0, TRUE, "")

\* A session in which the output may be missing or may refuse to resume.
NextDevice ==
    \/ \E dur \in Durations : loadTrackToDeckWithContext("A", dur)
    \/ playDeck("A")
    \/ playDeckSuspend("A")
    \/ playDeckResume("A")
    \/ playDeckRejected("A")
    \/ playDeckNoContext("A")
    \/ pauseDeck("A")
    \/ \E s \in SrcIds : engineOnEnded(s)
    \/ \E dur \in Durations : loadTrackWithContext(1, dur)
    \/ handleTrackSelect(1, "A")
    \/ playTrackWithContext(1, "A")
    \/ playTrackSuspend(1, "A")
    \/ playTrackResume(1, "A")
    \/ playTrackRejected(1, "A")
    \/ playTrackNoContext(1, "A")
    \/ pauseTrack(1)
    \/ \E s \in SrcIds : managerOnEnded(s)
    \/ initializeAudioContext
    \/ Tick
    \/ ContextResumed

SpecDevice == InitDevice /\ [][NextDevice]_vars

\* ------------------------------------------------------- failing loads
\* AudioFileUploader.loadAudioFile when audioEngine.loadAudioFile throws
\* (decodeAudioData rejected): the error is rethrown to the uploader, which
\* alerts; loadTrackToDeck is not reached
loadAudioFileFails(d) ==
    /\ engine = "AudioEngine"
    /\ last' = Did("load", d, NoTrackId, 0, FALSE, "DecodeFailure")
    /\ UNCHANGED <<engine, mixer, platformVars, engineVars, managerVars>>

\* a failing load that registers the track entry before decoding
loadTrackFailsEntrySet(t) ==
    /\ engine = "AudioManager"
    /\ tracks' = [tracks EXCEPT ![t] =
                     [loaded |-> TRUE, isPlaying |-> FALSE, startTime |-> 0,
                      pausedAt |-> 0, duration |-> 0, source |-> NoSrc]]
    /\ last' = Did("load", NoDeck, t, 0, FALSE, "DecodeFailure")
    /\ UNCHANGED <<engine, mixer, platformVars, engineVars, uiTrack, mgrAwait>>

\* AudioManager.loadTrack when decodeAudioData rejects: the catch block
\* returns false, tracks.set is not reached
loadTrackFails(t) ==
    /\ engine = "AudioManager"
    /\ last' = Did("load", NoDeck, t, 0, FALSE, "DecodeFailure")
    /\ UNCHANGED <<engine, mixer, platformVars, engineVars, managerVars>>

\* A session of uploads, some of which do not decode.
NextLoad ==
    \/ \E dur \in Durations : loadTrackToDeck("A", dur)
    \/ loadAudioFileFails("A")
    \/ playDeck("A")
    \/ pauseDeck("A")
    \/ \E s \in SrcIds : engineOnEnded(s)
    \/ \E dur \in Durations : loadTrack(1, dur)
    \/ loadTrackFails(1)
    \/ handleTrackSelect(1, "A")
    \/ playTrack(1, "A")
    \/ pauseTrack(1)
    \/ \E s \in SrcIds : managerOnEnded(s)
    \/ Tick
    \/ ContextResumed

SpecLoad == Init /\ [][NextLoad]_vars

\* A session that plays one track and seeks in it.
NextSeek ==
    \/ \E dur \in Durations : loadTrack(1, dur)
    \/ handleTrackSelect(1, "A")
    \/ pressPlayTrack(1, "A")
    \/ \E p \in SeekArgs : seekTo(1, p, "A")
    \/ \E s \in SrcIds : managerOnEnded(s)
    \/ updatePositions
    \/ Tick
    \/ ContextResumed

SpecSeek == Init /\ [][NextSeek]_vars

\* The context resume that a pending play() awaits is granted right after a
\* stop() call.
ContextResumedAfterStop == last.op = "stop" /\ ContextResumed

\* A session in which stop() is called while play() is suspended at its
\* await of audioContext.resume().
NextStopInFlight ==
    \/ \E dur \in Durations : loadEmptyDeck("A", dur)
    \/ pressPlayDeck("A")
    \/ playDeckSuspend("A")
    \/ playDeckResume("A")
    \/ stopDeck("A")
    \/ \E s \in SrcIds : engineOnEnded(s)
    \/ \E dur \in Durations : loadTrack(1, dur)
    \/ handleTrackSelect(1, "A")
    \/ pressPlayTrack(1, "A")
    \/ playTrackSuspend(1, "A")
    \/ playTrackResume(1, "A")
    \/ stopTrack(1)
    \/ \E s \in SrcIds : managerOnEnded(s)
    \/ Tick
    \/ ContextResumedAfterStop

SpecStopInFlight == Init /\ [][NextStopInFlight]_vars

\* On platforms that follow the older Web Audio drafts, stop() on a node that
\* has already ended or been stopped throws InvalidStateError; current ones
\* accept it.  Either outcome can happen.
StoredSourceFinished(t) ==
    /\ tracks[t].source # NoSrc
    /\ sources[tracks[t].source].status \in {"stopped", "ended"}

\* AudioManager.stopTrack when track.source.stop() throws: the catch block
\* returns false before any field is reset
stopTrackRejected(t) ==
    /\ engine = "AudioManager"
    /\ \E d \in Decks : uiTrack[d] = t
    /\ tracks[t].loaded
    /\ StoredSourceFinished(t)
    /\ last' = Did("stop", NoDeck, t, 0, FALSE, "rejected")
    /\ UNCHANGED <<engine, mixer, platformVars, engineVars, managerVars>>

\* AudioEngine.stopDeck when source.stop() throws: the inner catch logs a
\* warning and the reset goes on
stopDeckRejected(d) ==
    /\ engine = "AudioEngine"
    /\ deckState[d].isPlaying
    /\ deckSource[d] # NoSrc
    /\ sources[deckSource[d]].status \in {"stopped", "ended"}
    /\ deckState' = [deckState EXCEPT ![d] = StoppedDeck(deckState[d], deckSource[d])]
    /\ deckSource' = [deckSource EXCEPT ![d] = NoSrc]
    /\ sources' = Collected(sources, EngineRefs(deckSource'))
    /\ last' = Did("stop", d, NoTrackId, 0, TRUE, "rejected")
    /\ UNCHANGED <<engine, mixer, now, ctxState, engAwait, managerVars>>

\* A session with play, pause and stop in which the platform may reject
\* stopping a finished node.
NextStopRejected ==
    \/ \E dur \in Durations : loadEmptyDeck("A", dur)
    \/ pressPlayDeck("A")
    \/ pauseDeck("A")
    \/ stopDeck("A")
    \/ stopDeckRejected("A")
    \/ \E s \in SrcIds : engineOnEnded(s)
    \/ \E dur \in Durations : loadTrack(1, dur)
    \/ handleTrackSelect(1, "A")
    \/ pressPlayTrack(1, "A")
    \/ pauseTrack(1)
    \/ stopTrack(1)
    \/ stopTrackRejected(1)
    \/ \E s \in SrcIds : managerOnEnded(s)
    \/ Tick
    \/ ContextResumed

SpecStopRejected == Init /\ [][NextStopRejected]_vars

\* does a playback started now on deck d / of track t end within the modelled
\* clock range
DeckRunFits(d) ==
    now + deckState[d].audioTrack - deckState[d].position <= MaxClock

TrackRunFits(t) ==
    now + tracks[t].duration - tracks[t].pausedAt <= MaxClock

\* the clock reading up to which the session issues calls
LastCall == 1

\* A session that issues its calls while the clock reads at most LastCall and
\* then leaves the deck to the clock and the callbacks; playback is started
\* only if it ends within the clock range.
NextRunOut ==
    \/ \E dur \in Durations : loadEmptyDeck("A", dur)
    \/ now <= LastCall /\ DeckRunFits("A") /\ pressPlayDeck("A")
    \/ now <= LastCall /\ pauseDeck("A")
    \/ now <= LastCall /\ stopDeck("A")
    \/ getDeckState("A")
    \/ \E s \in SrcIds : engineOnEnded(s)
    \/ \E dur \in Durations : loadTrack(1, dur)
    \/ handleTrackSelect(1, "A")
    \/ now <= LastCall /\ TrackRunFits(1) /\ pressPlayTrack(1, "A")
    \/ now <= LastCall /\ pauseTrack(1)
    \/ now <= LastCall /\ stopTrack(1)
    \/ updatePositions
    \/ \E s \in SrcIds : managerOnEnded(s)
    \/ Tick
    \/ ContextResumed

SpecRunOut == Init /\ [][NextRunOut]_vars

\* The hardware clock keeps advancing and every queued ended event is
\* eventually dispatched.
FairRunOut ==
    /\ SpecRunOut
    /\ WF_vars(Tick)
    /\ WF_vars(\E s \in SrcIds : engineOnEnded(s))
    /\ WF_vars(\E s \in SrcIds : managerOnEnded(s))

\* ------------------------------------------- both engines driven in lockstep
\* One AudioEngine deck (deck A) and one AudioManager track (track 1, on deck
\* A) receive the same calls at the same clock readings.  Each engine creates
\* its own nodes: an AudioEngine node carries no track id.
EngineNodes(srcs) == {s \in SrcIds : srcs[s].deck = "A" /\ srcs[s].track = NoTrackId}
ManagerNodes(srcs) == {s \in SrcIds : srcs[s].track = 1}
FreeIn(srcs) == {s \in SrcIds : srcs[s].status = "free"}
FirstFree(srcs) == CHOOSE s \in FreeIn(srcs) : \A s2 \in FreeIn(srcs) : s <= s2

InitBoth ==
    /\ engine = "both"
    /\ now = 0
    /\ ctxState = "running"
    /\ sources = [s \in SrcIds |-> FreeSource]
    /\ deckState = [d \in Decks |-> EmptyDeck]
    /\ deckSource = [d \in Decks |-> NoSrc]
    /\ engAwait = [d \in Decks |-> 0]
    /\ tracks = [t \in TrackIds |-> NoTrack]
    /\ uiTrack = [d \in Decks |-> NoTrackId]
    /\ mgrAwait = {}
    /\ mixer = EngineMixer
    /\ last = Did("init", NoDeck, NoTrackId, 0, TRUE, "")

\* loadTrackToDeck(track, 'A') and loadTrack(1, file) with a buffer of dur
\* seconds, on the empty deck
bothLoad(dur) ==
    /\ engine = "both"
    /\ deckState["A"].audioTrack = 0
    /\ deckState' = [deckState EXCEPT !["A"] =
                        [EmptyDeck EXCEPT !.audioTrack = dur]]
    /\ tracks' = [tracks EXCEPT ![1] =
                     [loaded |-> TRUE, isPlaying |-> FALSE, startTime |-> 0,
                      pausedAt |-> 0, duration |-> dur, source |-> NoSrc]]
    /\ uiTrack' = [uiTrack EXCEPT !["A"] = 1]
    /\ last' = Did("load", "A", 1, dur, TRUE, "")
    /\ UNCHANGED <<engine, mixer, platformVars, deckSource, engAwait, mgrAwait>>

\* playDeck('A') and playTrack(1, 'A')
bothPlay ==
    /\ engine = "both"
    /\ deckState["A"].audioTrack # 0
    /\ Cardinality(FreeIds) >= IF deckState["A"].isPlaying THEN 1 ELSE 2
    /\ LET ds      == deckState["A"]
           eId     == FirstFree(sources)
           eSrcs   == IF ds.isPlaying THEN sources
                      ELSE [sources EXCEPT ![eId] =
                               StartedSource("A", NoTrackId, ds.position, ds.audioTrack)]
           tr      == tracks[1]
           offset  == tr.pausedAt
           mId     == FirstFree(eSrcs)
           mSrcs   == [StopIn(eSrcs, tr.source) EXCEPT ![mId] =
                          StartedSource("A", 1, offset, tr.duration)]
       IN /\ deckState' = IF ds.isPlaying THEN deckState
                          ELSE [deckState EXCEPT !["A"] =
                                   [ds EXCEPT !.isPlaying = TRUE,
                                              !.startTime = now - ds.position]]
          /\ deckSource' = IF ds.isPlaying THEN deckSource
                           ELSE [deckSource EXCEPT !["A"] = eId]
          /\ tracks' = [tracks EXCEPT ![1] =
                           [tr EXCEPT !.source = mId, !.startTime = now - offset,
                                      !.isPlaying = TRUE, !.pausedAt = 0]]
          /\ sources' = Collected(mSrcs, ManagerRefs(tracks') \cup EngineRefs(deckSource'))
    /\ last' = Did("play", "A", 1, 0, TRUE, "")
    /\ UNCHANGED <<engine, mixer, now, ctxState, engAwait, uiTrack, mgrAwait>>

\* pauseDeck('A') and pauseTrack(1)
bothPause ==
    /\ engine = "both"
    /\ deckState["A"].audioTrack # 0
    /\ LET ds      == deckState["A"]
           ePauses == ds.isPlaying /\ deckSource["A"] # NoSrc
           eSrcs   == IF ePauses THEN StopIn(sources, deckSource["A"]) ELSE sources
           tr      == tracks[1]
       IN /\ deckState' = IF ePauses
                          THEN [deckState EXCEPT !["A"] =
                                   [ds EXCEPT !.position = now - ds.startTime,
                                              !.isPlaying = FALSE]]
                          ELSE deckState
          /\ deckSource' = IF ePauses THEN [deckSource EXCEPT !["A"] = NoSrc]
                           ELSE deckSource
          /\ tracks' = IF tr.isPlaying
                       THEN [tracks EXCEPT ![1] =
                                [tr EXCEPT !.pausedAt = now - tr.startTime,
                                           !.isPlaying = FALSE]]
                       ELSE tracks
          /\ sources' = IF tr.isPlaying THEN StopIn(eSrcs, tr.source) ELSE eSrcs
    /\ last' = Did("pause", "A", 1, 0, TRUE, "")
    /\ UNCHANGED <<engine, mixer, now, ctxState, engAwait, uiTrack, mgrAwait>>

\* stopDeck('A') and stopTrack(1)
bothStop ==
    /\ engine = "both"
    /\ deckState["A"].audioTrack # 0
    /\ LET ds == deckState["A"]
           tr == tracks[1]
       IN /\ deckState' = [deckState EXCEPT !["A"] = StoppedDeck(ds, deckSource["A"])]
          /\ deckSource' = [deckSource EXCEPT !["A"] =
                               StoppedDeckSource(ds, deckSource["A"])]
          /\ tracks' = [tracks EXCEPT ![1] = StoppedTrack(tr)]
          /\ sources' = StopIn(StoppedDeckNodes(sources, ds, deckSource["A"]),
                               tr.source)
    /\ last' = Did("stop", "A", 1, 0, TRUE, "")
    /\ UNCHANGED <<engine, mixer, now, ctxState, engAwait, uiTrack, mgrAwait>>

\* The platform dispatches the queued ended events: at one point, one event
\* to each engine that has one queued (e, m: the nodes, NoSrc for none).
bothOnEnded(e, m) ==
    /\ engine = "both"
    /\ e # NoSrc \/ m # NoSrc
    /\ IF EngineNodes(sources) \cap PendingEvents = {} THEN e = NoSrc
       ELSE e \in EngineNodes(sources) \cap PendingEvents
    /\ IF ManagerNodes(sources) \cap PendingEvents = {} THEN m = NoSrc
       ELSE m \in ManagerNodes(sources) \cap PendingEvents
    /\ LET ds     == deckState["A"]
           eStops == e # NoSrc /\ ds.isPlaying
           tr     == tracks[1]
           mEnds  == m # NoSrc /\ tr.isPlaying
           evt    == [s \in SrcIds |->
                         IF s \in {e, m} THEN [sources[s] EXCEPT !.pending = FALSE]
                         ELSE sources[s]]
       IN /\ deckState' = IF eStops
                          THEN [deckState EXCEPT !["A"] =
                                   StoppedDeck(ds, deckSource["A"])]
                          ELSE deckState
          /\ deckSource' = IF eStops
                           THEN [deckSource EXCEPT !["A"] =
                                    StoppedDeckSource(ds, deckSource["A"])]
                           ELSE deckSource
          /\ tracks' = IF mEnds
                       THEN [tracks EXCEPT ![1] =
                                [tr EXCEPT !.isPlaying = FALSE, !.pausedAt = 0]]
                       ELSE tracks
          /\ sources' = Collected(IF eStops
                                  THEN StoppedDeckNodes(evt, ds, deckSource["A"])
                                  ELSE evt,
                                  ManagerRefs(tracks) \cup EngineRefs(deckSource'))
    /\ last' = Did("ended", "A", 1, 0, TRUE, "")
    /\ UNCHANGED <<engine, mixer, now, ctxState, engAwait, uiTrack, mgrAwait>>

NextBoth ==
    \/ \E dur \in Durations : bothLoad(dur)
    \/ bothPlay
    \/ bothPause
    \/ bothStop
    \/ \E e \in SrcIds \cup {NoSrc}, m \in SrcIds \cup {NoSrc} : bothOnEnded(e, m)
    \/ Tick

SpecBoth == InitBoth /\ [][NextBoth]_vars

\* ------------------------------------------------------------------ claims
\* the deck a playing AudioManager track feeds
PlayingOnDeck(d) ==
    \E t \in TrackIds : /\ tracks[t].isPlaying
                        /\ tracks[t].source # NoSrc
                        /\ sources[tracks[t].source].deck = d

\* is deck d marked Playing
MarkedPlaying(d) ==
    IF engine = "AudioEngine" THEN deckState[d].isPlaying ELSE PlayingOnDeck(d)

\* C1: in both engines, once the operation or callback has run (and every
\* queued ended event has been delivered), a deck has a live playback source
\* if and only if the deck is marked Playing.
C1_SourceIffPlaying ==
    PendingEvents = {} =>
        /\ \A d \in Decks : (LiveOnDeck(d) # {}) <=> MarkedPlaying(d)
        /\ engine = "AudioManager" =>
              \A t \in TrackIds : (LiveOfTrack(t) # {}) <=> tracks[t].isPlaying

\* C2: play() on a deck that is already Playing returns success and leaves
\* the playing flag, the anchor time, the reported position and the active
\* source as they were.
C2_PlayWhilePlayingIsNoOp ==
    [][ /\ \A d \in Decks :
            (playDeck(d) /\ deckState[d].isPlaying) =>
               /\ last'.ret
               /\ deckState'[d].isPlaying
               /\ deckState'[d].startTime = deckState[d].startTime
               /\ getCurrentPosition(d)' = getCurrentPosition(d)
               /\ deckSource'[d] = deckSource[d]
        /\ \A t \in TrackIds, d \in Decks :
            (playTrack(t, d) /\ tracks[t].isPlaying) =>
               /\ last'.ret
               /\ tracks'[t].isPlaying
               /\ tracks'[t].startTime = tracks[t].startTime
               /\ getCurrentTime(t)' = getCurrentTime(t)
               /\ tracks'[t].source = tracks[t].source
      ]_vars

\* C3: play() on a deck with no loaded buffer reports failure and changes
\* neither transport state, position nor source; so a Playing deck always has
\* a loaded buffer.
C3_PlayNeedsBuffer ==
    /\ [](/\ \A d \in Decks : deckState[d].isPlaying => deckState[d].audioTrack # 0
          /\ \A t \in TrackIds : tracks[t].isPlaying => tracks[t].loaded)
    /\ [][ /\ \A d \in Decks :
               ((playDeck(d) \/ playDeckResume(d)) /\ deckState[d].audioTrack = 0) =>
                  /\ ~last'.ret
                  /\ deckState' = deckState
                  /\ deckSource' = deckSource
                  /\ sources' = sources
           /\ \A t \in TrackIds, d \in Decks :
               (playTrack(t, d) /\ ~tracks[t].loaded) =>
                  /\ ~last'.ret
                  /\ tracks' = tracks
                  /\ sources' = sources
         ]_vars

\* C3 witness: a play() on an empty deck has just returned failure
C3_Witness ==
    /\ last.op = "play" /\ last.note = "NotLoaded" /\ ~last.ret
    /\ \A d \in Decks : ~MarkedPlaying(d)

\* a step of the platform, not a call of the session: the clock, a delivered
\* ended event, a position poll
PlatformStep == last'.op \in {"tick", "ended", "poll"}

\* C4: position survives a pause/resume cycle.  For a loaded deck before the
\* end of its buffer: pause() stores the elapsed position, the following
\* play() resumes at it, and while the deck plays the position follows the
\* clock (play, +d1, pause reads d1; play, +d2 reads d1+d2).
C4_PositionSurvivesPauseResume ==
    [][ /\ \A d \in Decks :
           LET ds == deckState[d]  pos == getCurrentPosition(d) IN
           (engine = "AudioEngine" /\ ds.audioTrack # 0 /\ pos < ds.audioTrack) =>
              /\ (pauseDeck(d) /\ ds.isPlaying) =>
                    ~deckState'[d].isPlaying /\ getCurrentPosition(d)' = pos
              /\ (playDeck(d) /\ ~ds.isPlaying) =>
                    deckState'[d].isPlaying /\ getCurrentPosition(d)' = pos
              /\ (ds.isPlaying /\ PlatformStep /\ pos + (now' - now) < ds.audioTrack) =>
                    /\ deckState'[d].isPlaying
                    /\ getCurrentPosition(d)' = pos + (now' - now)
        /\ \A t \in TrackIds :
           LET tr == tracks[t]  pos == getCurrentTime(t) IN
           (engine = "AudioManager" /\ tr.loaded /\ pos < tr.duration) =>
              /\ (pauseTrack(t) /\ tr.isPlaying) =>
                    ~tracks'[t].isPlaying /\ getCurrentTime(t)' = pos
              /\ (\E d \in Decks : playTrack(t, d) /\ ~tr.isPlaying) =>
                    tracks'[t].isPlaying /\ getCurrentTime(t)' = pos
              /\ (tr.isPlaying /\ PlatformStep /\ pos + (now' - now) < tr.duration) =>
                    /\ tracks'[t].isPlaying
                    /\ getCurrentTime(t)' = pos + (now' - now)
      ]_vars

\* C5: when a Playing deck runs past the end of its buffer and nobody calls
\* stop(), the delivery of its ended event finds the end-of-track transition
\* still to do and makes it: one notification, deck not Playing, position 0,
\* whether or not the position poll ran first.
C5_OneEndOfTrackNotification ==
    (last.op = "ended" /\ last.note = "natural") =>
        /\ last.ret
        /\ engine = "AudioEngine" =>
              ~deckState[last.deck].isPlaying /\ deckState[last.deck].position = 0
        /\ engine = "AudioManager" =>
              ~tracks[last.track].isPlaying /\ tracks[last.track].pausedAt = 0

\* C6: at most one live playback source feeds a deck at any time.
C6_OneSourcePerDeck ==
    \A d \in Decks : Cardinality(LiveOnDeck(d)) <= 1

\* C7: the stored paused position of a loaded deck is within [0, duration].
C7_PausedPositionInRange ==
    /\ \A d \in Decks :
          (deckState[d].audioTrack # 0 /\ ~deckState[d].isPlaying) =>
             (0 <= deckState[d].position /\ deckState[d].position <= deckState[d].audioTrack)
    /\ \A t \in TrackIds :
          tracks[t].loaded =>
             (0 <= tracks[t].pausedAt /\ tracks[t].pausedAt <= tracks[t].duration)

\* C8: for a loaded deck that is not Playing, seek(t) followed by
\* getPosition() returns t clamped to [0, duration], and the deck is still
\* not Playing.
C8_SeekWhilePausedClamps ==
    (last.op = "seek" /\ last.note = "paused") =>
        LET tr == tracks[last.track] IN
        /\ last.ret
        /\ ~tr.isPlaying
        /\ getCurrentTime(last.track) =
              (IF last.arg < 0 THEN 0
               ELSE IF last.arg > tr.duration THEN tr.duration ELSE last.arg)

\* C8 witness: a seek past the end of a paused track has just run
C8_Witness ==
    /\ last.op = "seek" /\ last.note = "paused"
    /\ last.arg > tracks[last.track].duration
    /\ getCurrentTime(last.track) = tracks[last.track].duration

\* C9: onTrackEnd is called only for a source that ran to the end of its
\* buffer, never for one that pause(), stop(), seek() or a repeated play()
\* stopped before the end.
C9_EndOfTrackOnlyOnCompletion ==
    (engine = "AudioManager" /\ last.op = "ended" /\ last.ret) => last.note = "natural"

\* the crossfader gain of deck d for the crossfader position last set
CrossfaderGainFor(d) ==
    IF engine = "AudioEngine" THEN EngineCrossfaderGain(d, mixer.crossfader)
                              ELSE ManagerCrossfaderGain(d, mixer.crossfader)

\* C10: each deck's target bus gain (deck gain node times crossfader gain
\* node) is the last volume set for the deck times the crossfader gain for
\* the last crossfader position (a position that is a number).
C10_BusGainIsVolumeTimesCrossfader ==
    mixer.crossfader # NaN =>
        \A d \in Decks :
            mixer.deckGain[d] * mixer.xfGain[d] = mixer.volume[d] * CrossfaderGainFor(d)

\* the gain the last setCrossfader call wrote for deck d: AudioEngine writes
\* crossfaderGainA/B, AudioManager writes deckAGain/deckBGain
WrittenCrossfaderGain(d) ==
    IF engine = "AudioEngine" THEN mixer.xfGain[d] ELSE mixer.deckGain[d]

\* the centre and the two ends of the crossfader's range in the engine in use
CrossfaderCentre == IF engine = "AudioEngine" THEN 500 ELSE 0
CrossfaderFullA  == IF engine = "AudioEngine" THEN 0 ELSE -1000
CrossfaderFullB  == 1000

\* C11: the crossfader is equal-power.  Right after setCrossfader: at the
\* centre gainA = gainB and gainA^2 + gainB^2 = 1 (to a thousandth); at full A
\* gainA = 1 and gainB = 0; at full B gainA = 0 and gainB = 1.
C11_EqualPowerCrossfader ==
    last.op = "setCrossfader" =>
        LET gA == WrittenCrossfaderGain("A")
            gB == WrittenCrossfaderGain("B")
            power == gA * gA + gB * gB
        IN /\ mixer.crossfader = CrossfaderCentre =>
                 /\ gA = gB
                 /\ 999000 <= power /\ power <= 1001000
           /\ mixer.crossfader = CrossfaderFullA => gA = 1000 /\ gB = 0
           /\ mixer.crossfader = CrossfaderFullB => gA = 0 /\ gB = 1000

\* C12: pause() and stop() are idempotent.  When the call that has just run
\* was pause() on a deck, running pause() on it again at once leaves the
\* playing flag, the position and the sources as they are; the same for
\* stop().
C12_PauseStopIdempotent ==
    [][ /\ \A d \in Decks :
           /\ (last.op = "pause" /\ last.deck = d /\ pauseDeck(d)) =>
                 /\ deckState'[d].isPlaying = deckState[d].isPlaying
                 /\ getCurrentPosition(d)' = getCurrentPosition(d)
                 /\ deckSource' = deckSource /\ sources' = sources
           /\ (last.op = "stop" /\ last.deck = d /\ stopDeck(d)) =>
                 /\ deckState'[d].isPlaying = deckState[d].isPlaying
                 /\ getCurrentPosition(d)' = getCurrentPosition(d)
                 /\ deckSource' = deckSource /\ sources' = sources
        /\ \A t \in TrackIds :
           /\ (last.op = "pause" /\ last.track = t /\ pauseTrack(t)) =>
                 /\ tracks'[t].isPlaying = tracks[t].isPlaying
                 /\ getCurrentTime(t)' = getCurrentTime(t)
                 /\ tracks'[t].source = tracks[t].source /\ sources' = sources
           /\ (last.op = "stop" /\ last.track = t /\ stopTrack(t)) =>
                 /\ tracks'[t].isPlaying = tracks[t].isPlaying
                 /\ getCurrentTime(t)' = getCurrentTime(t)
                 /\ tracks'[t].source = tracks[t].source /\ sources' = sources
      ]_vars

\* C12 witness: pause() has just run again on a deck that pause() stopped in
\* mid-track: the clock has not moved since and the stopped source's ended
\* event is still queued
C12_Witness ==
    /\ engine = "AudioEngine"
    /\ last.op = "pause" /\ last.note = "noop"
    /\ ~deckState[last.deck].isPlaying
    /\ deckState[last.deck].position > 0
    /\ deckState[last.deck].position = now - deckState[last.deck].startTime
    /\ \E s \in PendingEvents : sources[s].deck = last.deck /\ EndKind(s) = "stopped"

\* C13: pause() and stop() on a loaded deck that is not Playing return
\* success and leave the deck's buffer, playing flag and paused position
\* unchanged.
C13_PauseStopWhenIdleAreNoOps ==
    [][ /\ \A d \in Decks :
           (/\ deckState[d].audioTrack # 0 /\ ~deckState[d].isPlaying
            /\ (pauseDeck(d) \/ stopDeck(d))) =>
               /\ last'.ret
               /\ deckState'[d].audioTrack = deckState[d].audioTrack
               /\ deckState'[d].isPlaying = deckState[d].isPlaying
               /\ deckState'[d].position = deckState[d].position
        /\ \A t \in TrackIds :
           (/\ tracks[t].loaded /\ ~tracks[t].isPlaying
            /\ (pauseTrack(t) \/ stopTrack(t))) =>
               /\ last'.ret
               /\ tracks'[t].duration = tracks[t].duration
               /\ tracks'[t].isPlaying = tracks[t].isPlaying
               /\ tracks'[t].pausedAt = tracks[t].pausedAt
      ]_vars

\* C14: when creating, connecting or starting the source fails inside play(),
\* the call reports failure and the deck is in its pre-call state: flag,
\* position, stored source reference and the nodes themselves.
C14_FailedPlayRestoresDeck ==
    [][ /\ \A d \in Decks :
           (\E step \in {"create", "start"} : playDeckFails(d, step)) =>
               /\ ~last'.ret
               /\ deckState' = deckState
               /\ deckSource' = deckSource
               /\ sources' = sources
        /\ \A t \in TrackIds, d \in Decks :
           (\E step \in {"create", "start"} : playTrackFails(t, d, step)) =>
               /\ ~last'.ret
               /\ tracks' = tracks
               /\ sources' = sources
      ]_vars

\* C15: when the audio output is missing or its resume is refused, play()
\* returns failure (it does not throw), and flag, position and sources are
\* as before the call; a play() on a loaded, idle deck once the context runs
\* succeeds from the same position.
C15_DeviceUnavailableIsReported ==
    [][ /\ \A d \in Decks :
           /\ (playDeckNoContext(d) \/ playDeckRejected(d)) =>
                 /\ ~last'.ret /\ last'.note # "threw"
                 /\ deckState' = deckState
                 /\ deckSource' = deckSource /\ sources' = sources
           /\ (/\ (playDeck(d) \/ playDeckResume(d))
               /\ deckState[d].audioTrack # 0 /\ ~deckState[d].isPlaying) =>
                 /\ last'.ret
                 /\ deckState'[d].isPlaying
                 /\ getCurrentPosition(d)' = getCurrentPosition(d)
        /\ \A t \in TrackIds, d \in Decks :
           /\ (playTrackNoContext(t, d) \/ playTrackRejected(t, d)) =>
                 /\ ~last'.ret /\ last'.note # "threw"
                 /\ tracks' = tracks /\ sources' = sources
           /\ (/\ (playTrack(t, d) \/ playTrackResume(t, d))
               /\ tracks[t].loaded /\ ~tracks[t].isPlaying) =>
                 /\ last'.ret
                 /\ tracks'[t].isPlaying
                 /\ getCurrentTime(t)' = getCurrentTime(t)
      ]_vars

\* C16: a load whose decoding fails reports the failure and changes nothing:
\* no track entry is added or replaced, every deck keeps buffer, playing flag,
\* position and source.
C16_DecodeFailureChangesNothing ==
    [][ /\ \A d \in Decks :
           loadAudioFileFails(d) =>
               /\ ~last'.ret
               /\ deckState' = deckState /\ deckSource' = deckSource
               /\ sources' = sources
        /\ \A t \in TrackIds :
           loadTrackFails(t) =>
               /\ ~last'.ret
               /\ tracks' = tracks /\ uiTrack' = uiTrack
               /\ sources' = sources
      ]_vars

\* C16 witness: a load has just failed to decode while the deck plays in
\* mid-track
C16_Witness ==
    /\ last.op = "load" /\ last.note = "DecodeFailure" /\ ~last.ret
    /\ MarkedPlaying("A")
    /\ LiveOnDeck("A") # {}
    /\ now > 0

\* C17: loading a track onto a deck, from any state, leaves the deck Loaded:
\* nothing renders on the deck any more, the deck is not Playing, the new
\* buffer is the deck's buffer and the position is 0.
C17_LoadLeavesDeckLoaded ==
    [][ /\ \A d \in Decks, dur \in Durations :
           loadTrackToDeck(d, dur) =>
               /\ deckState'[d].audioTrack = dur
               /\ ~deckState'[d].isPlaying
               /\ getCurrentPosition(d)' = 0
               /\ deckSource'[d] = NoSrc
               /\ LiveOnDeck(d)' = {}
        /\ \A t \in TrackIds, d \in Decks :
           (handleTrackSelect(t, d) /\ tracks[t].loaded) =>
               /\ uiTrack'[d] = t
               /\ ~PlayingOnDeck(d)'
               /\ getCurrentTime(t)' = 0
               /\ LiveOnDeck(d)' = {}
      ]_vars

\* C18: play, pause or stop addressed to one deck leaves the other deck's
\* playing flag, position, stored source and rendering nodes unchanged, also
\* when both decks hold the same track.
C18_DecksAreIndependent ==
    [][ \A d \in Decks : \A o \in Decks \ {d} :
          /\ (playDeck(d) \/ pauseDeck(d) \/ stopDeck(d)) =>
                /\ deckState'[o] = deckState[o]
                /\ deckSource'[o] = deckSource[o]
                /\ LiveOnDeck(o)' = LiveOnDeck(o)
          /\ \A t \in TrackIds :
                (/\ uiTrack[d] = t
                 /\ (playTrack(t, d) \/ pauseTrack(t) \/ stopTrack(t))) =>
                   /\ PlayingOnDeck(o)' = PlayingOnDeck(o)
                   /\ LiveOnDeck(o)' = LiveOnDeck(o)
      ]_vars

\* C19: after any setter calls every gain target is in its domain: deck and
\* master gains and both crossfader gains within [0, 1], the stored
\* crossfader position within [0, 1] (AudioEngine) or [-1, 1] (AudioManager).
C19_GainTargetsInDomain ==
    /\ \A d \in Decks :
          /\ 0 <= mixer.deckGain[d] /\ mixer.deckGain[d] <= 1000
          /\ 0 <= mixer.xfGain[d] /\ mixer.xfGain[d] <= 1000
    /\ 0 <= mixer.masterGain /\ mixer.masterGain <= 1000
    /\ CrossfaderFullA <= mixer.crossfader /\ mixer.crossfader <= CrossfaderFullB

\* C20: getPosition() is 0 for every deck and every track id on which nothing
\* has been loaded, whatever was called on it.
C20_UnloadedPositionIsZero ==
    /\ \A d \in Decks : deckState[d].audioTrack = 0 => getCurrentPosition(d) = 0
    /\ \A t \in TrackIds : ~tracks[t].loaded => getCurrentTime(t) = 0

\* C20 witness: with the clock past 0, a play, pause, stop or seek has just
\* been refused or ignored on a deck with nothing loaded
C20_Witness ==
    /\ now > 0
    /\ last.op \in {"play", "pause", "stop", "seek"}
    /\ \/ /\ engine = "AudioEngine"
          /\ last.deck \in Decks
          /\ deckState[last.deck].audioTrack = 0
          /\ getCurrentPosition(last.deck) = 0
       \/ /\ engine = "AudioManager"
          /\ last.track \in TrackIds
          /\ ~tracks[last.track].loaded
          /\ getCurrentTime(last.track) = 0

\* C21: seek(t) on a Playing track with 0 <= t < duration leaves it Playing
\* from t with exactly one live source; delivering the ended event of a
\* source the seek stopped keeps it Playing, with one live source, at the
\* same position; and the position follows the clock.
C21_SeekWhilePlayingKeepsPlaying ==
    [][ \A t \in TrackIds :
          LET tr == tracks[t] IN
          (tr.loaded /\ tr.isPlaying) =>
             /\ \A d \in Decks, p \in SeekArgs :
                   (/\ seekTo(t, p, d) /\ ctxState = "running"
                    /\ 0 <= p /\ p < tr.duration) =>
                      /\ tracks'[t].isPlaying
                      /\ getCurrentTime(t)' = p
                      /\ Cardinality(LiveOfTrack(t)') = 1
             /\ \A s \in SrcIds :
                   (/\ managerOnEnded(s) /\ sources[s].status = "stopped"
                    /\ getCurrentTime(t) < tr.duration) =>
                      /\ tracks'[t].isPlaying
                      /\ getCurrentTime(t)' = getCurrentTime(t)
                      /\ Cardinality(LiveOfTrack(t)') = 1
             /\ (Tick /\ getCurrentTime(t) + 1 < tr.duration) =>
                      /\ tracks'[t].isPlaying
                      /\ getCurrentTime(t)' = getCurrentTime(t) + 1
      ]_vars

\* C22: the ended event of a node that is no longer the deck's (track's)
\* stored source changes no deck state when it is delivered.
C22_StaleEndedEventIsIgnored ==
    [][ \A s \in SrcIds :
          /\ (engineOnEnded(s) /\ deckSource[sources[s].deck] # s) =>
                deckState' = deckState /\ deckSource' = deckSource
          /\ (managerOnEnded(s) /\ tracks[sources[s].track].source # s) =>
                tracks' = tracks
      ]_vars

\* C23: when stop() was called while play() was suspended at its await, the
\* completion of that play() leaves the deck not Playing, with no live
\* source and at position 0.
C23_StopDuringPlayWins ==
    [][ /\ \A d \in Decks :
            playDeckResume(d) =>
               /\ ~deckState'[d].isPlaying
               /\ LiveOnDeck(d)' = {}
               /\ getCurrentPosition(d)' = 0
        /\ \A t \in TrackIds, d \in Decks :
            playTrackResume(t, d) =>
               /\ ~tracks'[t].isPlaying
               /\ LiveOfTrack(t)' = {}
               /\ getCurrentTime(t)' = 0
      ]_vars

\* C24: within one play run the position poll and the source's ended event
\* never both make the end-of-track transition: an ended event delivered
\* after the run was already ended finds nothing to do and notifies nobody,
\* a poll after the run was ended changes nothing, and in AudioEngine the
\* poll never ends a run.
C24_PollAndEndedNeverBothFire ==
    [][ /\ \A s \in SrcIds :
            (managerOnEnded(s) /\ ~tracks[sources[s].track].isPlaying) =>
                ~last'.ret /\ tracks' = tracks
        /\ updatePositions =>
            \A t \in TrackIds : ~tracks[t].isPlaying => tracks'[t] = tracks[t]
        /\ \A s \in SrcIds :
            (engineOnEnded(s) /\ ~deckState[sources[s].deck].isPlaying) =>
                ~last'.ret /\ deckState' = deckState
        /\ \A d \in Decks :
            getDeckState(d) => deckState'[d].isPlaying = deckState[d].isPlaying
      ]_vars

\* the poll ended the run at the end of the buffer, and the source's ended
\* event was delivered afterwards without a second transition
C24_Witness ==
    /\ engine = "AudioManager"
    /\ last.op = "ended" /\ last.note = "natural" /\ ~last.ret
    /\ ~tracks[last.track].isPlaying
    /\ tracks[last.track].pausedAt = 0
    /\ now >= tracks[last.track].duration

\* What a deck's operations and callbacks can observe of an AudioEngine deck
\* and of an AudioManager track: the playing flag, the reported position, the
\* live nodes, and whether a delivered ended event would make the
\* end-of-track transition.
EngineDeckView(d) ==
    [isPlaying |-> deckState[d].isPlaying, position |-> getCurrentPosition(d),
     live |-> LiveOnDeck(d), source |-> deckSource[d]]

ManagerTrackView(t) ==
    [isPlaying |-> tracks[t].isPlaying, position |-> getCurrentTime(t),
     live |-> LiveOfTrack(t), source |-> tracks[t].source]

\* C25: position polling has no effect on playback.  Two runs that differ
\* only in their polls reach the same deck state and deliver the same
\* notifications if a poll step changes nothing that an operation or a
\* callback reads: a poll leaves the playing flag, the reported position,
\* the live sources and the pending ended events as they were.
C25_PollingHasNoEffect ==
    [][ /\ updatePositions =>
            /\ \A t \in TrackIds : ManagerTrackView(t)' = ManagerTrackView(t)
            /\ PendingEvents' = PendingEvents
        /\ \A d \in Decks : getDeckState(d) =>
            /\ EngineDeckView(d)' = EngineDeckView(d)
            /\ PendingEvents' = PendingEvents
      ]_vars

\* C26: stop() on a loaded deck completes with the playing flag false and
\* the position 0, also when the platform rejects stopping a source that
\* has already ended or been stopped.
C26_StopToleratesFinishedSource ==
    [][ /\ \A t \in TrackIds :
            ((stopTrack(t) \/ stopTrackRejected(t)) /\ tracks[t].loaded) =>
               ~tracks'[t].isPlaying /\ getCurrentTime(t)' = 0
        /\ \A d \in Decks :
            ((stopDeck(d) \/ stopDeckRejected(d)) /\ deckState[d].audioTrack # 0) =>
               ~deckState'[d].isPlaying /\ getCurrentPosition(d)' = 0
      ]_vars

\* the deck is at rest: not Playing, position 0, no source held or sounding
DeckAtRest(d) ==
    IF engine = "AudioEngine"
    THEN /\ ~deckState[d].isPlaying
         /\ getCurrentPosition(d) = 0
         /\ deckSource[d] = NoSrc
         /\ LiveOnDeck(d) = {}
    ELSE /\ \A t \in TrackIds : uiTrack[d] = t =>
               ~tracks[t].isPlaying /\ getCurrentTime(t) = 0
         /\ LiveOnDeck(d) = {}

C28_EnginesAgree ==
    (engine = "both" /\ deckState["A"].audioTrack # 0) =>
        /\ deckState["A"].isPlaying = tracks[1].isPlaying
        /\ getCurrentPosition("A") = getCurrentTime(1)

\* C29: stop() on a loaded deck (Loaded, Playing or Paused) leaves it
\* Loaded: no source of it is live any more, the playing flag is false, the
\* reported position is 0, the buffer stays loaded, and a play() that
\* follows starts from offset 0.
C29_StopLeavesDeckLoaded ==
    [][ /\ \A d \in Decks :
            /\ ((stopDeck(d) \/ stopDeckRejected(d)) /\ deckState[d].audioTrack # 0) =>
                  /\ ~deckState'[d].isPlaying
                  /\ getCurrentPosition(d)' = 0
                  /\ deckSource'[d] = NoSrc
                  /\ LiveOnDeck(d)' = {}
                  /\ deckState'[d].audioTrack = deckState[d].audioTrack
            /\ (/\ playDeck(d) /\ last.op = "stop" /\ last.deck = d
                /\ deckState[d].audioTrack # 0) =>
                  /\ deckState'[d].isPlaying
                  /\ deckState'[d].startTime = now
        /\ \A t \in TrackIds :
            /\ ((stopTrack(t) \/ stopTrackRejected(t)) /\ tracks[t].loaded) =>
                  /\ ~tracks'[t].isPlaying
                  /\ getCurrentTime(t)' = 0
                  /\ LiveOfTrack(t)' = {}
                  /\ tracks'[t].loaded
                  /\ tracks'[t].duration = tracks[t].duration
            /\ \A d \in Decks :
                 (/\ playTrack(t, d) /\ last.op = "stop" /\ last.track = t
                  /\ tracks[t].loaded) =>
                    /\ tracks'[t].isPlaying
                    /\ tracks'[t].startTime = now
      ]_vars

\* C30: the position reported for a loaded deck (getCurrentPosition,
\* getDeckState().position, getCurrentTime) lies within [0, duration] in
\* every reachable state, also while the deck is Playing and the clock has
\* passed the end of the buffer.
C30_ReportedPositionInRange ==
    /\ engine = "AudioEngine" =>
          \A d \in Decks : deckState[d].audioTrack # 0 =>
              /\ 0 <= getCurrentPosition(d)
              /\ getCurrentPosition(d) <= deckState[d].audioTrack
              /\ 0 <= deckState[d].position
              /\ deckState[d].position <= deckState[d].audioTrack
    /\ engine = "AudioManager" =>
          \A t \in TrackIds : tracks[t].loaded =>
              /\ 0 <= getCurrentTime(t)
              /\ getCurrentTime(t) <= tracks[t].duration

====
